---- MODULE Spec2Model ----
(***************************************************************************)
(* Multi-level expense approval workflow (server.cjs + database.cjs).      *)
(*                                                                         *)
(* The state is the content of the SQLite tables approval_rules, expenses  *)
(* and approvals, plus one record per HTTP request in flight.  Every       *)
(* handler is cut at its awaits: one action per SQL statement, followed by *)
(* the synchronous JavaScript that runs until the next statement is        *)
(* issued.  Under Spec requests overlap freely; under SpecSeq a request    *)
(* starts only when no other request is in flight.                         *)
(***************************************************************************)
EXTENDS Integers, Sequences, FiniteSets, TLC

\* ------------------------------------------------------------------ bounds
MaxReq == 2          \* request slots (requests that can be in flight at once)
MaxExpenses == 1     \* expenses that can be submitted in one run

MaxRules == 3        \* rows of a generated approval_rules table

Reqs == 1..MaxReq
ExpenseIds == 1..MaxExpenses

\* ------------------------------------------------------------- identities
rawad == "rawad.zahreddine@holdalgroup.com"
digitalage == "digitalage@holdalgroup.com"
ceo == "ceo@holdalgroup.com"
hr == "hr@holdalgroup.com"
retail == "retail@holdalgroup.com"
incoma == "incoma@holdalgroup.com"
parapharma == "parapharma@holdalgroup.com"
employee == "employee@holdalgroup.com"

\* ---------------------------------------------------------------- amounts
\* An amount is <<units, thousandths>>, so that 999.99, 999.995 and
\* 999999999 are all exact; AmtLeq is the numeric <= of SQLite on REALs.
Amt(u, m) == <<u, m>>

AmtLeq(a, b) == a[1] < b[1] \/ (a[1] = b[1] /\ a[2] <= b[2])

AmtPositive(a) == a[1] > 0 \/ (a[1] = 0 /\ a[2] > 0)

\* JavaScript's Math.max() of no argument is -Infinity: a value below
\* every level.  Levels are >= 1, so any value below 1 orders the same.
NegInfinity == -1

\* ------------------------------------------------------------- rule table
Rule(d, lo, hi, c, l, r) ==
    [department |-> d, amountMin |-> lo, amountMax |-> hi,
     currency |-> c, level |-> l, recipient |-> r]

LowTier(d, l, r) == Rule(d, Amt(0, 0), Amt(999, 990), "ALL", l, r)

MidTier(d, l, r) == Rule(d, Amt(1000, 0), Amt(4999, 990), "ALL", l, r)

TopTier(d, l, r) == Rule(d, Amt(5000, 0), Amt(999999999, 0), "ALL", l, r)

\* The list seeded by Database.initializeApprovalRulesAndUsers, row by row.
approvalRules ==
    << LowTier("Logistics", 1, rawad),
       MidTier("Logistics", 1, rawad),
       MidTier("Logistics", 2, digitalage),
       TopTier("Logistics", 1, rawad),
       TopTier("Logistics", 2, digitalage),
       TopTier("Logistics", 3, ceo),
       LowTier("HR", 1, hr),
       MidTier("HR", 1, hr),
       MidTier("HR", 2, ceo),
       TopTier("HR", 1, hr),
       TopTier("HR", 2, ceo),
       LowTier("Retail", 1, retail),
       MidTier("Retail", 1, retail),
       MidTier("Retail", 2, digitalage),
       TopTier("Retail", 1, retail),
       TopTier("Retail", 2, digitalage),
       TopTier("Retail", 3, ceo),
       LowTier("Incoma", 1, incoma),
       MidTier("Incoma", 1, incoma),
       MidTier("Incoma", 2, digitalage),
       TopTier("Incoma", 1, incoma),
       TopTier("Incoma", 2, digitalage),
       TopTier("Incoma", 3, ceo),
       LowTier("Para-Pharma", 1, parapharma),
       MidTier("Para-Pharma", 1, parapharma),
       MidTier("Para-Pharma", 2, digitalage),
       TopTier("Para-Pharma", 1, parapharma),
       TopTier("Para-Pharma", 2, digitalage),
       TopTier("Para-Pharma", 3, ceo) >>

\* Another content of the approval_rules table, with the shapes the seeded
\* list lacks: two recipients at one level, two rows yielding the same
\* step, a currency-specific row, a missing level, one recipient at two
\* consecutive levels.
sharedLevelRules ==
    << LowTier("Logistics", 1, rawad),
       Rule("Logistics", Amt(0, 0), Amt(999, 990), "USD", 1, digitalage),
       Rule("Logistics", Amt(500, 0), Amt(4999, 990), "ALL", 1, rawad),
       MidTier("Logistics", 3, ceo),
       TopTier("Logistics", 1, rawad),
       TopTier("Logistics", 1, digitalage),
       TopTier("Logistics", 2, ceo),
       LowTier("HR", 1, hr),
       LowTier("HR", 2, hr) >>

RuleTables == {approvalRules, sharedLevelRules}

\* ------------------------------------------------------- request inputs
Departments == {"Logistics", "HR", "Finance"}

Amounts == {Amt(0, 0), Amt(500, 0), Amt(999, 995), Amt(2500, 0), Amt(6000, 0)}

Currencies == {"USD"}

Actors == {rawad, digitalage, ceo, hr, employee}

Roles == {"APPROVER", "ADMIN", "SUBMITTER", ""}

\* The inputs of overlapping requests (Spec): the workflows with one
\* recipient per level over three levels and with two recipients at a level.
OverlapDepartments == {"Logistics"}

OverlapAmounts == {Amt(500, 0), Amt(6000, 0)}

OverlapActors == {rawad, digitalage}

OverlapRoles == {"APPROVER"}

\* ------------------------------------------------------------------ state
VARIABLES
    rules,       \* table approval_rules: sequence of rows
    expenses,    \* table expenses: expense id -> row
    approvals,   \* table approvals: sequence of rows, in insertion order
    req,         \* request slot -> the handler's locals and position
    users,       \* table users: sequence of rows, in insertion order
    boot         \* position of initializeApprovalRulesAndUsers

vars == <<rules, expenses, approvals, req, users, boot>>

\* ------------------------------------------------------ Workflow Resolver
\* Variant: "amount_max > ?" for "amount_max >= ?".
RuleMatchesBelowMax(rule, department, amount, currency) ==
    /\ rule.department = department
    /\ AmtLeq(rule.amountMin, amount)
    /\ AmtLeq(amount, rule.amountMax) /\ amount # rule.amountMax
    /\ (rule.currency = currency \/ rule.currency = "ALL")

\* WHERE clause of Database.getApprovalWorkflow.
RuleMatches(rule, department, amount, currency) ==
    /\ rule.department = department
    /\ AmtLeq(rule.amountMin, amount)
    /\ AmtLeq(amount, rule.amountMax)
    /\ (rule.currency = currency \/ rule.currency = "ALL")

\* SELECT DISTINCT level, recipient: the set of projected pairs.
WorkflowSteps(table, department, amount, currency) ==
    { [level |-> table[i].level, recipient |-> table[i].recipient] :
        i \in { j \in DOMAIN table :
                  RuleMatches(table[j], department, amount, currency) } }

\* Variant: ORDER BY level DESC.
OrderedByLevelDesc(steps) ==
    { s \in [1..Cardinality(steps) -> steps] :
        /\ \A i, j \in DOMAIN s : i # j => s[i] # s[j]
        /\ \A i, j \in DOMAIN s : i < j => s[i].level >= s[j].level }

\* ORDER BY level: every enumeration of the pairs that is ascending by
\* level; SQL leaves the order of rows with equal level open.
OrderedByLevel(steps) ==
    { s \in [1..Cardinality(steps) -> steps] :
        /\ \A i, j \in DOMAIN s : i # j => s[i] # s[j]
        /\ \A i, j \in DOMAIN s : i < j => s[i].level <= s[j].level }

getApprovalWorkflow(table, department, amount, currency) ==
    OrderedByLevel(WorkflowSteps(table, department, amount, currency))

\* Variant: the number of steps taken for the highest level.
maxLevelOfCount(workflow) == Len(workflow)

\* Math.max(...workflow.map(w => w.level))
MathMax(S) ==
    IF S = {} THEN NegInfinity ELSE CHOOSE m \in S : \A x \in S : x <= m

maxLevelOf(workflow) == MathMax({ workflow[i].level : i \in DOMAIN workflow })

\* -------------------------------------------------------- Approval Ledger
ApprovalRow(expenseId, level, approverEmail, status, approvedAt) ==
    [expenseId |-> expenseId, level |-> level, approverEmail |-> approverEmail,
     status |-> status, approvedAt |-> approvedAt]

\* Database.createApprovalRecords: one PENDING row per step, in order.
createApprovalRecords(table, expenseId, workflow) ==
    table \o [ i \in DOMAIN workflow |->
                 ApprovalRow(expenseId, workflow[i].level,
                             workflow[i].recipient, "PENDING", "null") ]

RECURSIVE SortedByLevel(_, _)
\* rows of seq whose level is >= from, by ascending level, insertion order
\* within a level (the order SQLite's sorter yields for ORDER BY level).
SortedByLevel(seq, from) ==
    LET levels == { seq[i].level : i \in DOMAIN seq }
        rest == { l \in levels : l >= from }
    IN  IF rest = {} THEN << >>
        ELSE LET l == CHOOSE m \in rest : \A x \in rest : m <= x
             IN  SelectSeq(seq, LAMBDA a : a.level = l)
                   \o SortedByLevel(seq, l + 1)

\* Database.getApprovalRecords: SELECT * ... WHERE expense_id = ? ORDER BY level
getApprovalRecords(table, expenseId) ==
    SortedByLevel(SelectSeq(table, LAMBDA a : a.expenseId = expenseId), 0)

\* Variant: the UPDATE without "AND approver_email = ?".
updateApprovalRecordWholeLevel(table, expenseId, level, approverEmail, status) ==
    [ i \in DOMAIN table |->
        IF table[i].expenseId = expenseId /\ table[i].level = level
        THEN [table[i] EXCEPT !.status = status,
                              !.approvedAt = IF status = "APPROVED"
                                             THEN "ts" ELSE "null"]
        ELSE table[i] ]

\* Variant: the UPDATE without "AND level = ?".
updateApprovalRecordAnyLevel(table, expenseId, level, approverEmail, status) ==
    [ i \in DOMAIN table |->
        IF /\ table[i].expenseId = expenseId
           /\ table[i].approverEmail = approverEmail
        THEN [table[i] EXCEPT !.status = status,
                              !.approvedAt = IF status = "APPROVED"
                                             THEN "ts" ELSE "null"]
        ELSE table[i] ]

\* Database.updateApprovalRecord: the UPDATE statement; approved_at is
\* stamped for APPROVED and nulled otherwise.
updateApprovalRecord(table, expenseId, level, approverEmail, status) ==
    [ i \in DOMAIN table |->
        IF /\ table[i].expenseId = expenseId
           /\ table[i].level = level
           /\ table[i].approverEmail = approverEmail
        THEN [table[i] EXCEPT !.status = status,
                              !.approvedAt = IF status = "APPROVED"
                                             THEN "ts" ELSE "null"]
        ELSE table[i] ]

\* this.changes of that UPDATE
updateApprovalChanges(table, expenseId, level, approverEmail) ==
    Cardinality({ i \in DOMAIN table :
                    /\ table[i].expenseId = expenseId
                    /\ table[i].level = level
                    /\ table[i].approverEmail = approverEmail })

\* ---------------------------------------------------------- Expense rows
ExpenseRow(department, amount, currency, submitterEmail, status, maxLevel) ==
    [department |-> department, amount |-> amount, currency |-> currency,
     submitterEmail |-> submitterEmail, status |-> status,
     approvedOrDeclinedAt |-> "null",
     currentApprovalLevel |-> 1, maxApprovalLevel |-> maxLevel]

\* Database.updateExpenseStatus: currentLevel = 0 stands for the omitted
\* (null) argument, which leaves current_approval_level alone.
updateExpenseStatus(table, expenseId, status, approvedOrDeclinedAt, currentLevel) ==
    [table EXCEPT ![expenseId] =
        IF currentLevel # 0
        THEN [@ EXCEPT !.status = status,
                       !.approvedOrDeclinedAt = approvedOrDeclinedAt,
                       !.currentApprovalLevel = currentLevel]
        ELSE [@ EXCEPT !.status = status,
                       !.approvedOrDeclinedAt = approvedOrDeclinedAt]]

\* The object getExpenseById resolves to: the row plus its approvals.
NoExpense ==
    [id |-> 0, department |-> "", amount |-> Amt(0, 0), currency |-> "",
     submitterEmail |-> "", status |-> "", approvedOrDeclinedAt |-> "null",
     currentApprovalLevel |-> 0, maxApprovalLevel |-> 0, approvals |-> << >>]

ExpenseObject(id, row, recs) ==
    [id |-> id, department |-> row.department, amount |-> row.amount,
     currency |-> row.currency, submitterEmail |-> row.submitterEmail,
     status |-> row.status, approvedOrDeclinedAt |-> row.approvedOrDeclinedAt,
     currentApprovalLevel |-> row.currentApprovalLevel,
     maxApprovalLevel |-> row.maxApprovalLevel, approvals |-> recs]

\* ---------------------------------------------------------- request slots
IdleReq ==
    [op |-> "", pc |-> "idle", id |-> 0, userEmail |-> "", userRole |-> "",
     expense |-> NoExpense, workflow |-> << >>,
     updatedExpense |-> NoExpense, result |-> "", mail |-> << >>]

\* res.status(...).json(...): the handler ends with this result.
Respond(r, result) == [req[r] EXCEPT !.pc = "done", !.result = result]

InFlight(r) == req[r].pc \notin {"idle", "done"}

\* No request is in flight and no response is waiting to be collected.
Quiet == \A q \in Reqs : req[q].pc = "idle"

\* sendEmailMock(to, subject, body): appended to the handler's mail log.
sendEmailMock(mail, to, subject) == Append(mail, <<to, subject>>)

\* Variant: only the first approval of the list is mailed.
sendEmailsToFirst(mail, list, subject) ==
    IF list = << >> THEN mail
    ELSE sendEmailMock(mail, Head(list).approverEmail, subject)

RECURSIVE sendEmailsTo(_, _, _)
\* for (const approval of list) sendEmailMock(approval.approverEmail, ...)
sendEmailsTo(mail, list, subject) ==
    IF list = << >> THEN mail
    ELSE sendEmailsTo(sendEmailMock(mail, Head(list).approverEmail, subject),
                      Tail(list), subject)

\* ------------------------------------------------------------ table users
UserRow(email, role) == [email |-> email, role |-> role]

\* getUserByEmail: the rows with the e-mail (db.get takes the first).
getUserByEmail(table, email) == SelectSeq(table, LAMBDA u : u.email = email)

\* [...new Set(approvalRules.map(rule => rule.recipient))]: the recipients
\* in the order of their first row.
uniqueRecipients ==
    LET first == { i \in DOMAIN approvalRules :
                     \A j \in 1..(i - 1) :
                        approvalRules[j].recipient # approvalRules[i].recipient }
        Ordered(n) == CHOOSE i \in first : Cardinality({ j \in first : j < i }) = n - 1
    IN  [ n \in 1..Cardinality(first) |-> approvalRules[Ordered(n)].recipient ]

\* The users table a bootstrap of an empty database leaves.
bootstrapUsers ==
    [ n \in DOMAIN uniqueRecipients |-> UserRow(uniqueRecipients[n], "APPROVER") ]

\* The bootstrap is not running.
IdleBoot == [pc |-> "idle", i |-> 0, usersBefore |-> << >>]

\* ------------------------------------------------------------------- Init
Init ==
    /\ rules \in RuleTables
    /\ expenses = << >>
    /\ approvals = << >>
    /\ req = [r \in Reqs |-> IdleReq]
    /\ users = bootstrapUsers
    /\ boot = IdleBoot

\* ----------------------------------------------------- POST /api/expenses
\* Ids that no stored expense and no submission in flight uses.
FreshIds ==
    { i \in ExpenseIds :
        /\ i \notin DOMAIN expenses
        /\ \A q \in Reqs : ~(req[q].op = "submit" /\ InFlight(q) /\ req[q].id = i) }

\* Field validation, then newExpense is built and addExpense is called.
SubmitStart(r, department, amount, currency, submitterEmail) ==
    /\ req[r].pc = "idle"
    /\ IF ~AmtPositive(amount)
       THEN req' = [req EXCEPT ![r] =
                      [Respond(r, "ValidationError") EXCEPT !.op = "submit"]]
       ELSE /\ FreshIds # {}
            /\ LET id == CHOOSE i \in FreshIds : \A j \in FreshIds : i <= j
               IN  req' = [req EXCEPT ![r] =
                       [IdleReq EXCEPT
                          !.op = "submit", !.pc = "getApprovalWorkflow", !.id = id,
                          !.expense =
                              [NoExpense EXCEPT
                                 !.id = id, !.department = department,
                                 !.amount = amount, !.currency = currency,
                                 !.submitterEmail = submitterEmail,
                                 !.status = "PENDING"]]]
    /\ UNCHANGED <<rules, users, boot, expenses, approvals>>

\* addExpense: await this.getApprovalWorkflow(department, amount, currency)
SubmitGetWorkflow(r) ==
    /\ req[r].op = "submit" /\ req[r].pc = "getApprovalWorkflow"
    /\ \E workflow \in getApprovalWorkflow(rules, req[r].expense.department,
                                           req[r].expense.amount,
                                           req[r].expense.currency) :
         req' = [req EXCEPT ![r].workflow = workflow, ![r].pc = "insertExpense"]
    /\ UNCHANGED <<rules, users, boot, expenses, approvals>>

\* addExpense: INSERT INTO expenses (..., current_approval_level = 1,
\* max_approval_level = maxLevel)
addExpenseInsert(r) ==
    /\ req[r].op = "submit" /\ req[r].pc = "insertExpense"
    /\ LET e == req[r].expense
       IN  expenses' = expenses @@
             (req[r].id :> ExpenseRow(e.department, e.amount, e.currency,
                                      e.submitterEmail, e.status,
                                      maxLevelOf(req[r].workflow)))
    /\ req' = [req EXCEPT ![r].pc = "createApprovalRecords"]
    /\ UNCHANGED <<rules, users, boot, approvals>>

\* addExpense: await this.createApprovalRecords(id, workflow)
addExpenseCreateRecords(r) ==
    /\ req[r].op = "submit" /\ req[r].pc = "createApprovalRecords"
    /\ approvals' = createApprovalRecords(approvals, req[r].id, req[r].workflow)
    /\ req' = [req EXCEPT ![r].pc = "getApprovalRecords"]
    /\ UNCHANGED <<rules, users, boot, expenses>>

\* addExpense: expense.approvals = await this.getApprovalRecords(id), then
\* the handler mails the level-1 approvers and answers 201.
SubmitFinish(r) ==
    /\ req[r].op = "submit" /\ req[r].pc = "getApprovalRecords"
    /\ LET savedExpense ==
              [req[r].expense EXCEPT
                 !.currentApprovalLevel = 1,
                 !.maxApprovalLevel = maxLevelOf(req[r].workflow),
                 !.approvals = getApprovalRecords(approvals, req[r].id)]
           firstLevelApprovals ==
              SelectSeq(savedExpense.approvals, LAMBDA a : a.level = 1)
       IN  req' = [req EXCEPT ![r] =
                     [req[r] EXCEPT
                        !.pc = "done", !.result = "OK",
                        !.expense = savedExpense,
                        !.updatedExpense = savedExpense,
                        !.mail = sendEmailsTo(@, firstLevelApprovals,
                                   "New Expense Submitted for Your Approval")]]
    /\ UNCHANGED <<rules, users, boot, expenses, approvals>>

\* Variant: the handlers without the role gate.
DecisionStartNoGate(r, op, id, userEmail, userRole) ==
    /\ req[r].pc = "idle"
    /\ LET started == [IdleReq EXCEPT !.op = op, !.id = id,
                                      !.userEmail = userEmail,
                                      !.userRole = userRole]
       IN  req' = [req EXCEPT ![r] =
             IF userRole = ""
             THEN [started EXCEPT !.pc = "done", !.result = "ValidationError"]
             ELSE [started EXCEPT !.pc = "getExpenseById"]]
    /\ UNCHANGED <<rules, users, boot, expenses, approvals>>

\* ------------------------------------- PUT /api/expenses/:id/approve|decline
\* Both handlers open alike: required fields, the role gate, then
\* await database.getExpenseById(id).
DecisionStart(r, op, id, userEmail, userRole) ==
    /\ req[r].pc = "idle"
    /\ LET started == [IdleReq EXCEPT !.op = op, !.id = id,
                                      !.userEmail = userEmail,
                                      !.userRole = userRole]
       IN  req' = [req EXCEPT ![r] =
             IF userRole = ""
             THEN [started EXCEPT !.pc = "done", !.result = "ValidationError"]
             ELSE IF userRole # "APPROVER" /\ userRole # "ADMIN"
             THEN [started EXCEPT !.pc = "done", !.result = "Forbidden"]
             ELSE [started EXCEPT !.pc = "getExpenseById"]]
    /\ UNCHANGED <<rules, users, boot, expenses, approvals>>

ApproveStart(r, id, userEmail, userRole) ==
    DecisionStart(r, "approve", id, userEmail, userRole)

DeclineStart(r, id, userEmail, userRole) ==
    DecisionStart(r, "decline", id, userEmail, userRole)

\* getExpenseById: SELECT * FROM expenses WHERE id = ?; no row resolves to
\* null and the handler answers 404.
getExpenseByIdRow(r) ==
    /\ req[r].op \in {"approve", "decline"} /\ req[r].pc = "getExpenseById"
    /\ req' = [req EXCEPT ![r] =
          IF req[r].id \notin DOMAIN expenses
          THEN Respond(r, "NotFound")
          ELSE [req[r] EXCEPT
                  !.pc = "getApprovalRecords",
                  !.expense = ExpenseObject(req[r].id, expenses[req[r].id], << >>)]]
    /\ UNCHANGED <<rules, users, boot, expenses, approvals>>

\* Variant: find() without the status test.
currentLevelApprovalAnyStatus(expense, userEmail) ==
    SelectSeq(expense.approvals,
              LAMBDA a : /\ a.level = expense.currentApprovalLevel
                         /\ a.approverEmail = userEmail)

\* Variant: find() without the level test.
currentLevelApprovalAnyLevel(expense, userEmail) ==
    SelectSeq(expense.approvals,
              LAMBDA a : /\ a.approverEmail = userEmail
                         /\ a.status = "PENDING")

\* Variant: the actor must also be a recipient of that level in the rule
\* table as it is now.
currentLevelApprovalFromRules(expense, userEmail) ==
    SelectSeq(expense.approvals,
              LAMBDA a : /\ a.level = expense.currentApprovalLevel
                         /\ a.approverEmail = userEmail
                         /\ a.status = "PENDING"
                         /\ [level |-> a.level, recipient |-> userEmail] \in
                               WorkflowSteps(rules, expense.department,
                                             expense.amount, expense.currency))

\* expense.approvals.find(level === currentApprovalLevel && approverEmail
\* === userEmail && status === 'PENDING')
currentLevelApproval(expense, userEmail) ==
    SelectSeq(expense.approvals,
              LAMBDA a : /\ a.level = expense.currentApprovalLevel
                         /\ a.approverEmail = userEmail
                         /\ a.status = "PENDING")

\* Variant: the pending-approval test made before the status test.
DecisionCheckAssignmentFirst(r, op) ==
    /\ req[r].op = op /\ req[r].pc = "getApprovalRecords"
    /\ LET expense == [req[r].expense EXCEPT
                         !.approvals = getApprovalRecords(approvals, req[r].id)]
       IN  req' = [req EXCEPT ![r] =
             IF currentLevelApproval(expense, req[r].userEmail) = << >>
             THEN [Respond(r, "NotAuthorized") EXCEPT !.expense = expense]
             ELSE IF expense.status # "PENDING"
             THEN [Respond(r, "ExpenseNotPending") EXCEPT !.expense = expense]
             ELSE [req[r] EXCEPT !.pc = "updateApprovalRecord",
                                 !.expense = expense]]
    /\ UNCHANGED <<rules, users, boot, expenses, approvals>>

\* getExpenseById: await this.getApprovalRecords(row.id) completes the
\* object; the handler then checks the status and looks for the actor's
\* pending approval.
DecisionCheck(r, op) ==
    /\ req[r].op = op /\ req[r].pc = "getApprovalRecords"
    /\ LET expense == [req[r].expense EXCEPT
                         !.approvals = getApprovalRecords(approvals, req[r].id)]
       IN  req' = [req EXCEPT ![r] =
             IF expense.status # "PENDING"
             THEN [Respond(r, "ExpenseNotPending") EXCEPT !.expense = expense]
             ELSE IF currentLevelApproval(expense, req[r].userEmail) = << >>
             THEN [Respond(r, "NotAuthorized") EXCEPT !.expense = expense]
             ELSE [req[r] EXCEPT !.pc = "updateApprovalRecord",
                                 !.expense = expense]]
    /\ UNCHANGED <<rules, users, boot, expenses, approvals>>

ApproveCheck(r) == DecisionCheck(r, "approve")

DeclineCheck(r) == DecisionCheck(r, "decline")

\* Variant: only rows already APPROVED in the object read count.
LevelCompleteStrict(expense, userEmail) ==
    LET currentLevelApprovals ==
            SelectSeq(expense.approvals,
                      LAMBDA a : a.level = expense.currentApprovalLevel)
        completedApprovals ==
            SelectSeq(currentLevelApprovals, LAMBDA a : a.status = "APPROVED")
    IN  Len(completedApprovals) = Len(currentLevelApprovals)

\* Variant: one completed approval is enough.
LevelCompleteAfterOne(expense, userEmail) ==
    LET currentLevelApprovals ==
            SelectSeq(expense.approvals,
                      LAMBDA a : a.level = expense.currentApprovalLevel)
        completedApprovals ==
            SelectSeq(currentLevelApprovals,
                      LAMBDA a : a.approverEmail = userEmail
                                 \/ a.status = "APPROVED")
    IN  Len(completedApprovals) >= 1

\* Variant: the completed approvals are taken from every level.
LevelCompleteAllLevels(expense, userEmail) ==
    LET currentLevelApprovals ==
            SelectSeq(expense.approvals,
                      LAMBDA a : a.level = expense.currentApprovalLevel)
        completedApprovals ==
            SelectSeq(expense.approvals,
                      LAMBDA a : a.approverEmail = userEmail
                                 \/ a.status = "APPROVED")
    IN  Len(completedApprovals) = Len(currentLevelApprovals)

\* The level-completion test of the approve handler, on the object read
\* before the update.
LevelComplete(expense, userEmail) ==
    LET currentLevelApprovals ==
            SelectSeq(expense.approvals,
                      LAMBDA a : a.level = expense.currentApprovalLevel)
        completedApprovals ==
            SelectSeq(currentLevelApprovals,
                      LAMBDA a : a.approverEmail = userEmail
                                 \/ a.status = "APPROVED")
    IN  Len(completedApprovals) = Len(currentLevelApprovals)

\* Variant: "currentApprovalLevel <= maxApprovalLevel" chooses the advance.
ApproveUpdateRecordNeverFinal(r) ==
    /\ req[r].op = "approve" /\ req[r].pc = "updateApprovalRecord"
    /\ LET expense == req[r].expense
           level == expense.currentApprovalLevel
       IN  IF updateApprovalChanges(approvals, req[r].id, level,
                                    req[r].userEmail) = 0
           THEN /\ req' = [req EXCEPT ![r] = Respond(r, "StorageError")]
                /\ UNCHANGED approvals
           ELSE /\ approvals' = updateApprovalRecord(approvals, req[r].id, level,
                                                     req[r].userEmail, "APPROVED")
                /\ req' = [req EXCEPT ![r].pc =
                      IF ~LevelComplete(expense, req[r].userEmail)
                      THEN "getUpdatedExpense"
                      ELSE IF expense.currentApprovalLevel <= expense.maxApprovalLevel
                      THEN "advance"
                      ELSE "finalize"]
    /\ UNCHANGED <<rules, users, boot, expenses>>

\* approve: await database.updateApprovalRecord(id, level, userEmail,
\* 'APPROVED'), then the completion test chooses what follows.
ApproveUpdateRecord(r) ==
    /\ req[r].op = "approve" /\ req[r].pc = "updateApprovalRecord"
    /\ LET expense == req[r].expense
           level == expense.currentApprovalLevel
       IN  IF updateApprovalChanges(approvals, req[r].id, level,
                                    req[r].userEmail) = 0
           THEN /\ req' = [req EXCEPT ![r] = Respond(r, "StorageError")]
                /\ UNCHANGED approvals
           ELSE /\ approvals' = updateApprovalRecord(approvals, req[r].id, level,
                                                     req[r].userEmail, "APPROVED")
                /\ req' = [req EXCEPT ![r].pc =
                      IF ~LevelComplete(expense, req[r].userEmail)
                      THEN "getUpdatedExpense"
                      ELSE IF expense.currentApprovalLevel < expense.maxApprovalLevel
                      THEN "advance"
                      ELSE "finalize"]
    /\ UNCHANGED <<rules, users, boot, expenses>>

\* The UPDATE of updateExpenseStatus; no row changed rejects and the
\* handler answers 500.
StatusWrite(r, status, approvedOrDeclinedAt, currentLevel, mail) ==
    IF req[r].id \notin DOMAIN expenses
    THEN /\ req' = [req EXCEPT ![r] = Respond(r, "StorageError")]
         /\ UNCHANGED expenses
    ELSE /\ expenses' = updateExpenseStatus(expenses, req[r].id, status,
                                            approvedOrDeclinedAt, currentLevel)
         /\ req' = [req EXCEPT ![r].pc = "getUpdatedExpense", ![r].mail = mail]

\* Variant: the advance jumps to the last level.
ApproveAdvanceToMax(r) ==
    /\ req[r].op = "approve" /\ req[r].pc = "advance"
    /\ LET expense == req[r].expense
           nextLevel == expense.maxApprovalLevel
           nextLevelApprovals ==
               SelectSeq(expense.approvals, LAMBDA a : a.level = nextLevel)
       IN  StatusWrite(r, "PENDING", "null", nextLevel,
                       sendEmailsTo(req[r].mail, nextLevelApprovals,
                                    "Expense Approval Required"))
    /\ UNCHANGED <<rules, users, boot, approvals>>

\* Variant: updateExpenseStatus(id, 'PENDING', null) without the level.
ApproveAdvanceKeepsLevel(r) ==
    /\ req[r].op = "approve" /\ req[r].pc = "advance"
    /\ LET expense == req[r].expense
           nextLevel == expense.currentApprovalLevel + 1
           nextLevelApprovals ==
               SelectSeq(expense.approvals, LAMBDA a : a.level = nextLevel)
       IN  StatusWrite(r, "PENDING", "null", 0,
                       sendEmailsTo(req[r].mail, nextLevelApprovals,
                                    "Expense Approval Required"))
    /\ UNCHANGED <<rules, users, boot, approvals>>

\* approve, level complete below the last level:
\* updateExpenseStatus(id, 'PENDING', null, nextLevel), mail to next level.
ApproveAdvance(r) ==
    /\ req[r].op = "approve" /\ req[r].pc = "advance"
    /\ LET expense == req[r].expense
           nextLevel == expense.currentApprovalLevel + 1
           nextLevelApprovals ==
               SelectSeq(expense.approvals, LAMBDA a : a.level = nextLevel)
       IN  StatusWrite(r, "PENDING", "null", nextLevel,
                       sendEmailsTo(req[r].mail, nextLevelApprovals,
                                    "Expense Approval Required"))
    /\ UNCHANGED <<rules, users, boot, approvals>>

\* approve, level complete at the last level:
\* updateExpenseStatus(id, 'APPROVED', approvedAt), mail to the submitter.
ApproveFinalize(r) ==
    /\ req[r].op = "approve" /\ req[r].pc = "finalize"
    /\ StatusWrite(r, "APPROVED", "ts", 0,
                   sendEmailMock(req[r].mail, req[r].expense.submitterEmail,
                                 "Your Expense Has Been Approved"))
    /\ UNCHANGED <<rules, users, boot, approvals>>

\* Variant: the UPDATE names the expense only, so every row of it is
\* DECLINED.
DeclineUpdateRecordAll(r) ==
    /\ req[r].op = "decline" /\ req[r].pc = "updateApprovalRecord"
    /\ LET level == req[r].expense.currentApprovalLevel
       IN  IF updateApprovalChanges(approvals, req[r].id, level,
                                    req[r].userEmail) = 0
           THEN /\ req' = [req EXCEPT ![r] = Respond(r, "StorageError")]
                /\ UNCHANGED approvals
           ELSE /\ approvals' =
                     [ i \in DOMAIN approvals |->
                         IF approvals[i].expenseId = req[r].id
                         THEN [approvals[i] EXCEPT !.status = "DECLINED"]
                         ELSE approvals[i] ]
                /\ req' = [req EXCEPT ![r].pc = "updateExpenseStatus"]
    /\ UNCHANGED <<rules, users, boot, expenses>>

\* decline: await database.updateApprovalRecord(id, level, userEmail,
\* 'DECLINED')
DeclineUpdateRecord(r) ==
    /\ req[r].op = "decline" /\ req[r].pc = "updateApprovalRecord"
    /\ LET level == req[r].expense.currentApprovalLevel
       IN  IF updateApprovalChanges(approvals, req[r].id, level,
                                    req[r].userEmail) = 0
           THEN /\ req' = [req EXCEPT ![r] = Respond(r, "StorageError")]
                /\ UNCHANGED approvals
           ELSE /\ approvals' = updateApprovalRecord(approvals, req[r].id, level,
                                                     req[r].userEmail, "DECLINED")
                /\ req' = [req EXCEPT ![r].pc = "updateExpenseStatus"]
    /\ UNCHANGED <<rules, users, boot, expenses>>

\* Variant: updateExpenseStatus(id, 'DECLINED', null).
DeclineUpdateStatusNoStamp(r) ==
    /\ req[r].op = "decline" /\ req[r].pc = "updateExpenseStatus"
    /\ StatusWrite(r, "DECLINED", "null", 0,
                   sendEmailMock(req[r].mail, req[r].expense.submitterEmail,
                                 "Your Expense Has Been Declined"))
    /\ UNCHANGED <<rules, users, boot, approvals>>

\* decline: updateExpenseStatus(id, 'DECLINED', declinedAt), mail to the
\* submitter.
DeclineUpdateStatus(r) ==
    /\ req[r].op = "decline" /\ req[r].pc = "updateExpenseStatus"
    /\ StatusWrite(r, "DECLINED", "ts", 0,
                   sendEmailMock(req[r].mail, req[r].expense.submitterEmail,
                                 "Your Expense Has Been Declined"))
    /\ UNCHANGED <<rules, users, boot, approvals>>

\* const updatedExpense = await database.getExpenseById(id): the row ...
getUpdatedExpenseRow(r) ==
    /\ req[r].op \in {"approve", "decline"} /\ req[r].pc = "getUpdatedExpense"
    /\ req' = [req EXCEPT ![r] =
          IF req[r].id \notin DOMAIN expenses
          THEN [req[r] EXCEPT !.pc = "done", !.result = "OK"]
          ELSE [req[r] EXCEPT
                  !.pc = "getUpdatedRecords",
                  !.updatedExpense =
                      ExpenseObject(req[r].id, expenses[req[r].id], << >>)]]
    /\ UNCHANGED <<rules, users, boot, expenses, approvals>>

\* ... then its approvals, and res.json({ expense: updatedExpense }).
getUpdatedExpenseRecords(r) ==
    /\ req[r].op \in {"approve", "decline"} /\ req[r].pc = "getUpdatedRecords"
    /\ req' = [req EXCEPT ![r] =
          [req[r] EXCEPT
             !.pc = "done", !.result = "OK",
             !.updatedExpense.approvals = getApprovalRecords(approvals, req[r].id)]]
    /\ UNCHANGED <<rules, users, boot, expenses, approvals>>

\* The client has the response; the slot is free for the next request.
Return(r) ==
    /\ req[r].pc = "done"
    /\ req' = [req EXCEPT ![r] = IdleReq]
    /\ UNCHANGED <<rules, users, boot, expenses, approvals>>

\* ------------------------------------------------------------------- Next
SubmitRequest(r, departments, amounts) ==
    \E department \in departments, amount \in amounts, currency \in Currencies :
        SubmitStart(r, department, amount, currency, employee)

ApproveRequest(r, actors, roles) ==
    \E id \in ExpenseIds, userEmail \in actors, userRole \in roles :
        ApproveStart(r, id, userEmail, userRole)

DeclineRequest(r, actors, roles) ==
    \E id \in ExpenseIds, userEmail \in actors, userRole \in roles :
        DeclineStart(r, id, userEmail, userRole)

Step(r) ==
    \/ SubmitGetWorkflow(r)
    \/ addExpenseInsert(r)
    \/ addExpenseCreateRecords(r)
    \/ SubmitFinish(r)
    \/ getExpenseByIdRow(r)
    \/ ApproveCheck(r)
    \/ ApproveUpdateRecord(r)
    \/ ApproveAdvance(r)
    \/ ApproveFinalize(r)
    \/ DeclineCheck(r)
    \/ DeclineUpdateRecord(r)
    \/ DeclineUpdateStatus(r)
    \/ getUpdatedExpenseRow(r)
    \/ getUpdatedExpenseRecords(r)
    \/ Return(r)

\* Requests arrive at any time and overlap.
Next ==
    \E r \in Reqs :
        \/ SubmitRequest(r, OverlapDepartments, OverlapAmounts)
        \/ ApproveRequest(r, OverlapActors, OverlapRoles)
        \/ DeclineRequest(r, OverlapActors, OverlapRoles)
        \/ Step(r)

Spec == Init /\ [][Next]_vars

\* Sequential execution: a request arrives only when none is in flight.
NextSeq ==
    \E r \in Reqs :
        \/ Quiet /\ SubmitRequest(r, Departments, Amounts)
        \/ Quiet /\ ApproveRequest(r, Actors, Roles)
        \/ Quiet /\ DeclineRequest(r, Actors, Roles)
        \/ Step(r)

SpecSeq == Init /\ [][NextSeq]_vars

\* ------------------------------------------------ every role at the gate
\* The actors of the runs about the role gate: a recipient and a user who
\* is no recipient.
GateActors == {rawad, employee}

\* Sequential execution in which decisions come with every role.
NextGate ==
    \E r \in Reqs :
        \/ Quiet /\ SubmitRequest(r, OverlapDepartments, OverlapAmounts)
        \/ Quiet /\ ApproveRequest(r, GateActors, Roles)
        \/ Quiet /\ DeclineRequest(r, GateActors, Roles)
        \/ Step(r)

SpecGate == Init /\ [][NextGate]_vars

\* ------------------------------------------- approvals without declines
\* The inputs of the runs in which nobody declines.
LiveDepartments == {"Logistics", "HR"}

LiveAmounts == {Amt(500, 0), Amt(6000, 0)}

LiveActors == {rawad, digitalage, ceo, hr}

LiveRoles == {"APPROVER"}

\* The steps of the submit and approve handlers.
StepLive(r) ==
    \/ SubmitGetWorkflow(r)
    \/ addExpenseInsert(r)
    \/ addExpenseCreateRecords(r)
    \/ SubmitFinish(r)
    \/ getExpenseByIdRow(r)
    \/ ApproveCheck(r)
    \/ ApproveUpdateRecord(r)
    \/ ApproveAdvance(r)
    \/ ApproveFinalize(r)
    \/ getUpdatedExpenseRow(r)
    \/ getUpdatedExpenseRecords(r)
    \/ Return(r)

\* Sequential execution of submit and approve requests only.
NextLive ==
    \E r \in Reqs :
        \/ Quiet /\ SubmitRequest(r, LiveDepartments, LiveAmounts)
        \/ Quiet /\ ApproveRequest(r, LiveActors, LiveRoles)
        \/ StepLive(r)

\* The approve request of an approver who holds a PENDING row at the
\* current level of a PENDING expense.
AssignedApprove ==
    \E r \in Reqs, id \in ExpenseIds, userEmail \in LiveActors :
        /\ Quiet
        /\ id \in DOMAIN expenses
        /\ expenses[id].status = "PENDING"
        /\ \E i \in DOMAIN approvals :
              /\ approvals[i].expenseId = id
              /\ approvals[i].level = expenses[id].currentApprovalLevel
              /\ approvals[i].approverEmail = userEmail
              /\ approvals[i].status = "PENDING"
        /\ ApproveStart(r, id, userEmail, "APPROVER")

\* The handler that has started runs to its response, and while approvers
\* hold PENDING rows at a current level, one of them eventually approves.
SpecLive ==
    /\ Init
    /\ [][NextLive]_vars
    /\ WF_vars(\E r \in Reqs : StepLive(r))
    /\ SF_vars(AssignedApprove)

\* ------------------------------------------------- failing collaborators
\* The workflow without its k-th step.
WithoutStep(workflow, k) ==
    [ i \in 1..(Len(workflow) - 1) |->
        IF i < k THEN workflow[i] ELSE workflow[i + 1] ]

\* The write a handler is about to make fails: the statement changes
\* nothing and its callback gets err.  The decision handlers and the INSERT
\* of addExpense reject into the handler's catch (500).  In
\* createApprovalRecords a failing stmt.run has no callback: its row is
\* missing and addExpense goes on; an err of finalize rejects inside the
\* callback of db.run, which has no catch, and the request gets no answer.
StorageWriteFails(r) ==
    \/ /\ req[r].op = "submit" /\ req[r].pc = "insertExpense"
       /\ req' = [req EXCEPT ![r] = Respond(r, "StorageError")]
       /\ UNCHANGED <<rules, users, boot, expenses, approvals>>
    \/ /\ req[r].op = "submit" /\ req[r].pc = "createApprovalRecords"
       /\ \E k \in DOMAIN req[r].workflow :
            approvals' = createApprovalRecords(approvals, req[r].id,
                                               WithoutStep(req[r].workflow, k))
       /\ \/ req' = [req EXCEPT ![r].pc = "getApprovalRecords"]
          \/ req' = [req EXCEPT ![r] = Respond(r, "NoResponse")]
       /\ UNCHANGED <<rules, users, boot, expenses>>
    \/ /\ req[r].op \in {"approve", "decline"}
       /\ req[r].pc \in {"updateApprovalRecord", "advance", "finalize",
                         "updateExpenseStatus"}
       /\ req' = [req EXCEPT ![r] = Respond(r, "StorageError")]
       /\ UNCHANGED <<rules, users, boot, expenses, approvals>>

\* The handler ends in its catch because sendEmailMock threw: the attempt
\* is in the mail log, the answer is 500.
DispatchThrows(r, to) ==
    [Respond(r, "DispatchError") EXCEPT
       !.mail = sendEmailMock(@, to, "dispatch failed")]

\* sendEmailMock throws at the first mail of the handler: the write before
\* it is made, the exception reaches the handler's catch.
NotifyFails(r) ==
    \/ /\ req[r].op = "submit" /\ req[r].pc = "getApprovalRecords"
       /\ LET firstLevelApprovals ==
                  SelectSeq(getApprovalRecords(approvals, req[r].id),
                            LAMBDA a : a.level = 1)
          IN  /\ firstLevelApprovals # << >>
              /\ req' = [req EXCEPT ![r] =
                    DispatchThrows(r, Head(firstLevelApprovals).approverEmail)]
       /\ UNCHANGED <<rules, users, boot, expenses, approvals>>
    \/ /\ req[r].op = "approve" /\ req[r].pc = "advance"
       /\ req[r].id \in DOMAIN expenses
       /\ LET expense == req[r].expense
              nextLevel == expense.currentApprovalLevel + 1
              nextLevelApprovals ==
                  SelectSeq(expense.approvals, LAMBDA a : a.level = nextLevel)
          IN  /\ nextLevelApprovals # << >>
              /\ expenses' = updateExpenseStatus(expenses, req[r].id, "PENDING",
                                                 "null", nextLevel)
              /\ req' = [req EXCEPT ![r] =
                    DispatchThrows(r, Head(nextLevelApprovals).approverEmail)]
       /\ UNCHANGED <<rules, users, boot, approvals>>
    \/ /\ \/ req[r].op = "approve" /\ req[r].pc = "finalize"
          \/ req[r].op = "decline" /\ req[r].pc = "updateExpenseStatus"
       /\ req[r].id \in DOMAIN expenses
       /\ expenses' = updateExpenseStatus(expenses, req[r].id,
                         IF req[r].op = "approve" THEN "APPROVED" ELSE "DECLINED",
                         "ts", 0)
       /\ req' = [req EXCEPT ![r] =
             DispatchThrows(r, req[r].expense.submitterEmail)]
       /\ UNCHANGED <<rules, users, boot, approvals>>

\* Sequential execution in which a write or a notification may fail.
NextFail ==
    \E r \in Reqs :
        \/ Quiet /\ SubmitRequest(r, OverlapDepartments, OverlapAmounts)
        \/ Quiet /\ ApproveRequest(r, OverlapActors, OverlapRoles)
        \/ Quiet /\ DeclineRequest(r, OverlapActors, OverlapRoles)
        \/ Step(r)
        \/ StorageWriteFails(r)
        \/ NotifyFails(r)

SpecFail == Init /\ [][NextFail]_vars

\* ------------------------------------------------ bootstrap and users
\* database.init(): createTables ends in initializeApprovalRulesAndUsers.
\* It runs when the process starts, before the server listens.
BootstrapStart ==
    /\ Quiet /\ boot.pc = "idle"
    /\ boot' = [pc |-> "deleteRules", i |-> 0, usersBefore |-> users]
    /\ UNCHANGED <<rules, expenses, approvals, req, users>>

\* Variant: the rules are inserted without clearing the table first.
BootstrapKeepRules ==
    /\ boot.pc = "deleteRules"
    /\ boot' = [boot EXCEPT !.pc = "insertRule", !.i = 0]
    /\ UNCHANGED <<rules, expenses, approvals, req, users>>

\* DELETE FROM approval_rules
BootstrapClearRules ==
    /\ boot.pc = "deleteRules"
    /\ rules' = << >>
    /\ boot' = [boot EXCEPT !.pc = "insertRule", !.i = 0]
    /\ UNCHANGED <<expenses, approvals, req, users>>

\* for (const rule of approvalRules) INSERT INTO approval_rules ...
BootstrapInsertRule ==
    /\ boot.pc = "insertRule"
    /\ rules' = Append(rules, approvalRules[boot.i + 1])
    /\ boot' = IF boot.i + 1 < Len(approvalRules)
               THEN [boot EXCEPT !.i = @ + 1]
               ELSE [boot EXCEPT !.pc = "ensureUser", !.i = 0]
    /\ UNCHANGED <<expenses, approvals, req, users>>

\* for (const email of uniqueRecipients): getUserByEmail, and addUser with
\* role APPROVER when there is no such user.
BootstrapEnsureUser ==
    /\ boot.pc = "ensureUser"
    /\ LET email == uniqueRecipients[boot.i + 1]
           existingUser == getUserByEmail(users, email)
       IN  users' = IF existingUser = << >>
                    THEN Append(users, UserRow(email, "APPROVER"))
                    ELSE users
    /\ boot' = IF boot.i + 1 < Len(uniqueRecipients)
               THEN [boot EXCEPT !.i = @ + 1]
               ELSE [boot EXCEPT !.pc = "done"]
    /\ UNCHANGED <<rules, expenses, approvals, req>>

\* init() resolves: the server handles requests.
BootstrapReturn ==
    /\ boot.pc = "done"
    /\ boot' = IdleBoot
    /\ UNCHANGED <<rules, expenses, approvals, req, users>>

\* The e-mails and roles of the user administration requests.
UserEmails == {rawad, employee}

UserRoles == {"SUBMITTER", "APPROVER"}

\* POST /api/users: 400 when the e-mail has a user, else the row is added.
AddUserRequest(email, role) ==
    /\ Quiet /\ boot.pc = "idle"
    /\ getUserByEmail(users, email) = << >>
    /\ users' = Append(users, UserRow(email, role))
    /\ UNCHANGED <<rules, expenses, approvals, req, boot>>

\* PUT /api/users/:id: UPDATE users SET role = ? WHERE id = ?
UpdateUserRequest(email, role) ==
    /\ Quiet /\ boot.pc = "idle"
    /\ getUserByEmail(users, email) # << >>
    /\ users' = [ n \in DOMAIN users |->
                    IF users[n].email = email
                    THEN [users[n] EXCEPT !.role = role] ELSE users[n] ]
    /\ UNCHANGED <<rules, expenses, approvals, req, boot>>

\* DELETE /api/users/:id
DeleteUserRequest(email) ==
    /\ Quiet /\ boot.pc = "idle"
    /\ getUserByEmail(users, email) # << >>
    /\ users' = SelectSeq(users, LAMBDA u : u.email # email)
    /\ UNCHANGED <<rules, expenses, approvals, req, boot>>

\* An existing database whose process is up, or a new one about to be
\* bootstrapped.
InitBoot ==
    /\ expenses = << >>
    /\ approvals = << >>
    /\ req = [r \in Reqs |-> IdleReq]
    /\ \/ /\ rules \in RuleTables
          /\ users = bootstrapUsers
          /\ boot = IdleBoot
       \/ /\ rules = << >>
          /\ users = << >>
          /\ boot = [pc |-> "deleteRules", i |-> 0, usersBefore |-> << >>]

\* Runs of the bootstrap with user administration between them.
NextBoot ==
    \/ BootstrapStart
    \/ BootstrapClearRules
    \/ BootstrapInsertRule
    \/ BootstrapEnsureUser
    \/ BootstrapReturn
    \/ \E email \in UserEmails, role \in UserRoles :
          \/ AddUserRequest(email, role)
          \/ UpdateUserRequest(email, role)
    \/ \E email \in UserEmails : DeleteUserRequest(email)

\* Sequential execution of the expense requests with restarts of the
\* process between them.
NextRestart ==
    \/ BootstrapStart
    \/ BootstrapClearRules
    \/ BootstrapInsertRule
    \/ BootstrapEnsureUser
    \/ BootstrapReturn
    \/ \E r \in Reqs :
          \/ Quiet /\ boot.pc = "idle"
                   /\ SubmitRequest(r, OverlapDepartments, OverlapAmounts)
          \/ Quiet /\ boot.pc = "idle"
                   /\ ApproveRequest(r, OverlapActors, OverlapRoles)
          \/ Quiet /\ boot.pc = "idle"
                   /\ DeclineRequest(r, OverlapActors, OverlapRoles)
          \/ Step(r)

SpecRestart == InitBoot /\ [][NextRestart]_vars

SpecBoot == InitBoot /\ [][NextBoot]_vars

\* ------------------------------------------- the resolver on its own
\* Rows a generated approval_rules table is made of: overlapping amount
\* ranges, wildcard and specific currencies, two levels, two recipients.
RuleUniverse ==
    { LowTier("Logistics", 1, rawad),
      Rule("Logistics", Amt(0, 0), Amt(999, 990), "USD", 1, digitalage),
      Rule("Logistics", Amt(500, 0), Amt(4999, 990), "ALL", 1, rawad),
      Rule("Logistics", Amt(500, 0), Amt(4999, 990), "ALL", 2, digitalage),
      Rule("Logistics", Amt(0, 0), Amt(999, 990), "EUR", 2, rawad),
      LowTier("HR", 1, rawad) }

\* Every table of at most MaxRules such rows, in every storage order.
GeneratedTables == UNION { [1..n -> RuleUniverse] : n \in 0..MaxRules }

ResolveTables == RuleTables \cup GeneratedTables

ResolveDepartments ==
    {"Logistics", "HR", "Retail", "Incoma", "Para-Pharma", "Finance"}

ResolveAmounts ==
    { Amt(0, 10), Amt(500, 0), Amt(999, 990), Amt(999, 995), Amt(1000, 0),
      Amt(2500, 0), Amt(4999, 990), Amt(5000, 0), Amt(999999999, 0),
      Amt(1000000000, 0) }

ResolveCurrencies == {"USD", "EUR"}

InitResolve ==
    /\ rules \in ResolveTables
    /\ expenses = << >>
    /\ approvals = << >>
    /\ req = [r \in Reqs |-> IdleReq]
    /\ users = bootstrapUsers
    /\ boot = IdleBoot

\* One call of Database.getApprovalWorkflow(department, amount, currency);
\* the slot keeps the arguments and the rows the query resolved to.
Resolve(r, department, amount, currency) ==
    /\ req[r].pc = "idle"
    /\ \E workflow \in getApprovalWorkflow(rules, department, amount, currency) :
         req' = [req EXCEPT ![r] =
                   [IdleReq EXCEPT
                      !.op = "resolve", !.pc = "done", !.result = "OK",
                      !.expense = [NoExpense EXCEPT !.department = department,
                                                    !.amount = amount,
                                                    !.currency = currency],
                      !.workflow = workflow]]
    /\ UNCHANGED <<rules, users, boot, expenses, approvals>>

ResolveRequest(r) ==
    \E department \in ResolveDepartments, amount \in ResolveAmounts,
       currency \in ResolveCurrencies :
        Resolve(r, department, amount, currency)

NextResolve ==
    \E r \in Reqs :
        \/ Quiet /\ ResolveRequest(r)
        \/ Return(r)

SpecResolve == InitResolve /\ [][NextResolve]_vars

\* ============================================================ properties
\* What the tables hold for expense id, as getExpenseById would return it.
Stored(id) == ExpenseObject(id, expenses[id], getApprovalRecords(approvals, id))

\* Request r has been answered.
Answered(r, op, result) ==
    req[r].op = op /\ req[r].pc = "done" /\ req[r].result = result

\* The rows of the approvals table that belong to expense id.
RowsOf(id) == { i \in DOMAIN approvals : approvals[i].expenseId = id }

\* The object the handler read names the actor at its current level with
\* the given status.
ActorRowAtCurrent(expense, userEmail, status) ==
    \E i \in DOMAIN expense.approvals :
        /\ expense.approvals[i].level = expense.currentApprovalLevel
        /\ expense.approvals[i].approverEmail = userEmail
        /\ expense.approvals[i].status = status

\* Every stored row of expense id at the given level is APPROVED.
LevelAllApproved(id, level) ==
    \A i \in RowsOf(id) : approvals[i].level = level => approvals[i].status = "APPROVED"

\* ---- C1 (SpecSeq)
\* C1: after a successful submitExpense whose resolution is non-empty, the
\* stored expense is PENDING at level 1, its maxApprovalLevel is the highest
\* level of the resolved steps, and the ledger holds exactly one row per
\* resolved (level, recipient) step, all PENDING, and no other row.
C1_SubmitMaterializes ==
    \A r \in Reqs :
        LET id == req[r].id
            e == req[r].expense
            steps == WorkflowSteps(rules, e.department, e.amount, e.currency)
        IN  (Answered(r, "submit", "OK") /\ steps # {}) =>
              /\ id \in DOMAIN expenses
              /\ expenses[id].status = "PENDING"
              /\ expenses[id].currentApprovalLevel = 1
              /\ \E s \in steps : s.level = expenses[id].maxApprovalLevel
              /\ \A s \in steps : s.level <= expenses[id].maxApprovalLevel
              /\ \A s \in steps :
                    Cardinality({ i \in RowsOf(id) :
                                    /\ approvals[i].level = s.level
                                    /\ approvals[i].approverEmail = s.recipient }) = 1
              /\ \A i \in RowsOf(id) :
                    /\ approvals[i].status = "PENDING"
                    /\ [level |-> approvals[i].level,
                        recipient |-> approvals[i].approverEmail] \in steps

\* A submission answered with success whose workflow has three steps, two
\* of them at the same level.
C1_Witness ==
    \E r \in Reqs :
        /\ Answered(r, "submit", "OK")
        /\ Len(req[r].workflow) = 3
        /\ req[r].workflow[1].level = req[r].workflow[2].level

\* ---- C2 (SpecSeq)
\* C2: a decline by an approver holding a PENDING row at the current level
\* of a PENDING expense succeeds, sets the status to DECLINED, turns only
\* the actor's row to DECLINED, leaves every other row as it was and leaves
\* currentApprovalLevel unchanged.
C2_DeclineVetoes ==
    \A r \in Reqs :
        LET id == req[r].id
            before == req[r].expense
            after == Stored(id)
        IN  ( /\ req[r].op = "decline" /\ req[r].pc = "done"
              /\ before.status = "PENDING"
              /\ ActorRowAtCurrent(before, req[r].userEmail, "PENDING") ) =>
              /\ req[r].result = "OK"
              /\ after.status = "DECLINED"
              /\ after.currentApprovalLevel = before.currentApprovalLevel
              /\ Len(after.approvals) = Len(before.approvals)
              /\ \A i \in DOMAIN before.approvals :
                    IF /\ before.approvals[i].level = before.currentApprovalLevel
                       /\ before.approvals[i].approverEmail = req[r].userEmail
                    THEN /\ after.approvals[i].status = "DECLINED"
                         /\ after.approvals[i].level = before.approvals[i].level
                         /\ after.approvals[i].approverEmail = req[r].userEmail
                    ELSE after.approvals[i] = before.approvals[i]

\* A successful decline that left a PENDING row of another approver at the
\* same level and a PENDING row at a later level.
C2_Witness ==
    \E r \in Reqs :
        /\ Answered(r, "decline", "OK")
        /\ expenses[req[r].id].status = "DECLINED"
        /\ \E i, j \in RowsOf(req[r].id) :
              /\ approvals[i].level = req[r].expense.currentApprovalLevel
              /\ approvals[i].approverEmail # req[r].userEmail
              /\ approvals[i].status = "PENDING"
              /\ approvals[j].level > req[r].expense.currentApprovalLevel
              /\ approvals[j].status = "PENDING"

\* ---- C3 (SpecSeq)
\* C3: when an approve leaves every row of the current level APPROVED and
\* that level is maxApprovalLevel, the expense is APPROVED, its
\* approvedOrDeclinedAt is set and currentApprovalLevel is unchanged.
C3_FinalApprove ==
    \A r \in Reqs :
        LET id == req[r].id
            before == req[r].expense
        IN  ( /\ Answered(r, "approve", "OK")
              /\ LevelAllApproved(id, before.currentApprovalLevel)
              /\ before.currentApprovalLevel = before.maxApprovalLevel ) =>
              /\ expenses[id].status = "APPROVED"
              /\ expenses[id].approvedOrDeclinedAt # "null"
              /\ expenses[id].currentApprovalLevel = before.currentApprovalLevel

\* A final approval at level 3 of a three-level workflow.
C3_Witness ==
    \E r \in Reqs :
        /\ Answered(r, "approve", "OK")
        /\ req[r].expense.currentApprovalLevel = 3
        /\ req[r].expense.maxApprovalLevel = 3
        /\ expenses[req[r].id].status = "APPROVED"

\* ---- C4 (SpecSeq)
\* C4: when an approve leaves every row of the current level k APPROVED
\* and k < maxApprovalLevel, currentApprovalLevel becomes k + 1 and the
\* expense stays PENDING (undecided).
C4_AdvanceOneLevel ==
    \A r \in Reqs :
        LET id == req[r].id
            before == req[r].expense
        IN  ( /\ Answered(r, "approve", "OK")
              /\ LevelAllApproved(id, before.currentApprovalLevel)
              /\ before.currentApprovalLevel < before.maxApprovalLevel ) =>
              /\ expenses[id].status = "PENDING"
              /\ expenses[id].currentApprovalLevel = before.currentApprovalLevel + 1

\* Level 1 of a three-level workflow approved: the expense is PENDING at
\* level 2.
C4_Witness ==
    \E r \in Reqs :
        /\ Answered(r, "approve", "OK")
        /\ req[r].expense.currentApprovalLevel = 1
        /\ req[r].expense.maxApprovalLevel = 3
        /\ expenses[req[r].id].status = "PENDING"
        /\ expenses[req[r].id].currentApprovalLevel = 2

\* ---- C5 (Spec)
\* C5: once the stored status of an expense is APPROVED or DECLINED, no
\* step of any handler changes its status, currentApprovalLevel,
\* approvedOrDeclinedAt or any of its approval rows.
C5_TerminalAbsorbing ==
    [][ \A id \in DOMAIN expenses :
          expenses[id].status \in {"APPROVED", "DECLINED"} =>
            /\ expenses'[id] = expenses[id]
            /\ getApprovalRecords(approvals', id) = getApprovalRecords(approvals, id)
      ]_vars

\* ---- C6 (Spec)
\* Request r has passed its checks and has a write of the approval row or
\* of the expense row still to issue, decided on the object it read.
AboutToWrite(r) ==
    /\ req[r].op \in {"approve", "decline"}
    /\ req[r].pc \in {"updateApprovalRecord", "advance", "finalize",
                      "updateExpenseStatus"}

\* C6: two decision requests on the same expense are never both about to
\* write on the strength of the same expense/ledger snapshot.
C6_DecisionsSerialized ==
    \A r1, r2 \in Reqs :
        (r1 # r2 /\ AboutToWrite(r1) /\ AboutToWrite(r2)
                 /\ req[r1].id = req[r2].id) =>
            req[r1].expense # req[r2].expense

\* ---- C7 (Spec)
\* C7: currentApprovalLevel never decreases and stays within
\* 1..maxApprovalLevel, and maxApprovalLevel never changes, along every
\* execution.
C7_LevelMonotone ==
    [][ \A id \in DOMAIN expenses :
          /\ 1 <= expenses[id].currentApprovalLevel
          /\ expenses[id].currentApprovalLevel <= expenses[id].maxApprovalLevel
          /\ expenses'[id].currentApprovalLevel >= expenses[id].currentApprovalLevel
          /\ expenses'[id].maxApprovalLevel = expenses[id].maxApprovalLevel
      ]_vars

\* ---- C8 (Spec)
\* C8: an approval row whose stored status is APPROVED or DECLINED is never
\* written again: no step changes it, and no handler issues its UPDATE on a
\* row that is no longer PENDING.
C8_RecordDecidedOnce ==
    [][ /\ \A i \in DOMAIN approvals :
              approvals[i].status # "PENDING" => approvals'[i] = approvals[i]
        /\ \A r \in Reqs :
              (req[r].pc = "updateApprovalRecord" /\ req'[r].pc # "updateApprovalRecord") =>
                 \A i \in RowsOf(req[r].id) :
                    ( /\ approvals[i].level = req[r].expense.currentApprovalLevel
                      /\ approvals[i].approverEmail = req[r].userEmail ) =>
                        approvals[i].status = "PENDING"
      ]_vars

\* ---- C9 (SpecSeq)
\* The approve request r comes from an approver whose row at the current
\* level is already APPROVED: a second approve on the same expense and level.
SecondApprove(r) ==
    /\ req[r].op = "approve" /\ req[r].pc = "done"
    /\ req[r].expense.id # 0
    /\ ActorRowAtCurrent(req[r].expense, req[r].userEmail, "APPROVED")

C10_NotAuthorized ==
    \A r \in Reqs :
        ( /\ req[r].op \in {"approve", "decline"} /\ req[r].pc = "done"
          /\ req[r].expense.id # 0
          /\ req[r].expense.status = "PENDING"
          /\ ~ActorRowAtCurrent(req[r].expense, req[r].userEmail, "PENDING") ) =>
            /\ req[r].result = "NotAuthorized"
            /\ Stored(req[r].id) = req[r].expense

\* A rejected request of an approver whose only row is at a later level.
C10_Witness ==
    \E r \in Reqs :
        /\ req[r].op \in {"approve", "decline"} /\ req[r].pc = "done"
        /\ req[r].result = "NotAuthorized"
        /\ req[r].expense.status = "PENDING"
        /\ \E i \in DOMAIN req[r].expense.approvals :
              /\ req[r].expense.approvals[i].approverEmail = req[r].userEmail
              /\ req[r].expense.approvals[i].level > req[r].expense.currentApprovalLevel
        /\ \A i \in DOMAIN req[r].expense.approvals :
              req[r].expense.approvals[i].approverEmail = req[r].userEmail =>
                 req[r].expense.approvals[i].level > req[r].expense.currentApprovalLevel

\* ---- C11 (SpecSeq)
\* C11: in sequential execution a decision request on an expense that is
\* APPROVED or DECLINED fails with ExpenseNotPending, whoever the actor is,
\* and leaves the expense and its approval rows unchanged.
C11_ExpenseNotPending ==
    \A r \in Reqs :
        ( /\ req[r].op \in {"approve", "decline"} /\ req[r].pc = "done"
          /\ req[r].expense.id # 0
          /\ req[r].expense.status \in {"APPROVED", "DECLINED"} ) =>
            /\ req[r].result = "ExpenseNotPending"
            /\ Stored(req[r].id) = req[r].expense

\* A request on a decided expense by an actor without any PENDING row at
\* its current level: the status test answers, not the assignment test.
C11_Witness ==
    \E r \in Reqs :
        /\ req[r].op \in {"approve", "decline"} /\ req[r].pc = "done"
        /\ req[r].result = "ExpenseNotPending"
        /\ req[r].expense.status = "DECLINED"
        /\ ~ActorRowAtCurrent(req[r].expense, req[r].userEmail, "PENDING")

\* ---- C12 (SpecSeq)
\* C12: a submission whose resolution yields no step is refused with
\* NoWorkflowConfigured, creates no expense row and no approval row, and
\* no stored expense has a maxApprovalLevel below 1.
C12_NoWorkflowRefused ==
    /\ \A r \in Reqs :
          LET e == req[r].expense
          IN  ( /\ req[r].op = "submit" /\ req[r].pc = "done"
                /\ e.id # 0
                /\ WorkflowSteps(rules, e.department, e.amount, e.currency) = {} ) =>
                  /\ req[r].result = "NoWorkflowConfigured"
                  /\ req[r].id \notin DOMAIN expenses
                  /\ RowsOf(req[r].id) = {}
    /\ \A id \in DOMAIN expenses : expenses[id].maxApprovalLevel >= 1

\* ---- C13 (SpecResolve)
\* The indices of the rows of the rule table that the arguments select:
\* same department, amountMin <= amount <= amountMax, currency equal or ALL.
SelectedRules(department, amount, currency) ==
    { j \in DOMAIN rules :
        /\ rules[j].department = department
        /\ AmtLeq(rules[j].amountMin, amount)
        /\ AmtLeq(amount, rules[j].amountMax)
        /\ rules[j].currency \in {currency, "ALL"} }

\* Every answered resolve call returned each selected (level, recipient)
\* pair once and nothing else.
ResolvedPairsRight ==
    \A r \in Reqs :
        (req[r].op = "resolve" /\ req[r].pc = "done") =>
            LET e == req[r].expense
                w == req[r].workflow
                sel == SelectedRules(e.department, e.amount, e.currency)
            IN  /\ { w[i] : i \in DOMAIN w } =
                     { [level |-> rules[j].level, recipient |-> rules[j].recipient] :
                         j \in sel }
                /\ \A i, j \in DOMAIN w : i # j => w[i] # w[j]

\* C13: for every rule table and arguments, resolve returns exactly the
\* (level, recipient) pairs of the matching rules (inclusive amount bounds,
\* currency equal or ALL), each once, and changes no stored state.
C13_ResolveSelects ==
    [][ /\ ResolvedPairsRight'
        /\ rules' = rules /\ expenses' = expenses /\ approvals' = approvals
      ]_vars

\* A resolve whose amount equals the amountMax of one matching row, a second
\* matching row yielding the same pair, and the pair returned once.
C13_Witness ==
    \E r \in Reqs :
        /\ req[r].op = "resolve" /\ req[r].pc = "done"
        /\ Len(req[r].workflow) = 1
        /\ LET e == req[r].expense
               sel == SelectedRules(e.department, e.amount, e.currency)
           IN  \E j, k \in sel :
                  /\ j # k
                  /\ rules[j].amountMax = e.amount
                  /\ rules[k].amountMax # e.amount

\* ---- C14 (SpecResolve)
\* The order of recipient identities as strings.
RecipientRank ==
    (ceo :> 1) @@ (digitalage :> 2) @@ (employee :> 3) @@ (hr :> 4)
    @@ (incoma :> 5) @@ (parapharma :> 6) @@ (rawad :> 7) @@ (retail :> 8)

\* C14: the sequence resolve returns is ascending by level and, within a
\* level, by recipient, whatever the storage order of the rule rows.
C14_ResolveTotallyOrdered ==
    \A r \in Reqs :
        (req[r].op = "resolve" /\ req[r].pc = "done") =>
            LET w == req[r].workflow
            IN  \A i, j \in DOMAIN w :
                   i < j =>
                     \/ w[i].level < w[j].level
                     \/ /\ w[i].level = w[j].level
                        /\ RecipientRank[w[i].recipient] < RecipientRank[w[j].recipient]

\* ---- C15 (SpecResolve)
\* C15: with the seeded rule table, whenever a rule matches, the levels of
\* the resolved steps are exactly 1..maxLevel, in ascending order from 1.
C15_SeededLevelsContiguous ==
    \A r \in Reqs :
        ( /\ req[r].op = "resolve" /\ req[r].pc = "done"
          /\ rules = approvalRules
          /\ req[r].workflow # << >> ) =>
            LET w == req[r].workflow
                levels == { w[i].level : i \in DOMAIN w }
            IN  /\ w[1].level = 1
                /\ \A i, j \in DOMAIN w : i < j => w[i].level <= w[j].level
                /\ \E m \in levels : levels = 1..m

\* The seeded table resolved at the top of its last range: three levels.
C15_Witness ==
    \E r \in Reqs :
        /\ req[r].op = "resolve" /\ req[r].pc = "done"
        /\ rules = approvalRules
        /\ req[r].expense.amount = Amt(999999999, 0)
        /\ Len(req[r].workflow) = 3

\* ---- C16 (SpecSeq)
\* The handler's expense object is the seeded-table case of the given
\* department and amount in USD.
SeededCase(expense, department, amount) ==
    /\ rules = approvalRules
    /\ expense.id # 0
    /\ expense.department = department
    /\ expense.amount = amount
    /\ expense.currency = "USD"

\* C16: with the seeded rule table, a submission of HR / 500 / USD resolves
\* to the single step (1, HR approver) and is stored with maxApprovalLevel 1,
\* and one approve by that approver takes it from PENDING to APPROVED.
C16_SingleLevelApproval ==
    \A r \in Reqs :
        LET e == req[r].expense
        IN  /\ ( /\ Answered(r, "submit", "OK")
                 /\ SeededCase(e, "HR", Amt(500, 0)) ) =>
                   /\ req[r].workflow = << [level |-> 1, recipient |-> hr] >>
                   /\ e.maxApprovalLevel = 1
                   /\ Stored(req[r].id).maxApprovalLevel = 1
                   /\ Stored(req[r].id).status = "PENDING"
            /\ ( /\ req[r].op = "approve" /\ req[r].pc = "done"
                 /\ SeededCase(e, "HR", Amt(500, 0))
                 /\ e.status = "PENDING"
                 /\ req[r].userEmail = hr ) =>
                   /\ req[r].result = "OK"
                   /\ Stored(req[r].id).status = "APPROVED"
                   /\ req[r].updatedExpense.status = "APPROVED"

\* The HR approver's approve of the PENDING HR / 500 expense, answered.
C16_Witness ==
    \E r \in Reqs :
        /\ Answered(r, "approve", "OK")
        /\ SeededCase(req[r].expense, "HR", Amt(500, 0))
        /\ req[r].expense.status = "PENDING"
        /\ req[r].userEmail = hr
        /\ expenses[req[r].id].status = "APPROVED"

\* ---- C17 (SpecSeq)
\* The levels of the rows of an expense object, in order.
LevelsOf(recs) == [ i \in DOMAIN recs |-> recs[i].level ]

\* The expense object has a row of the actor at the given level.
HasRowAt(expense, userEmail, level) ==
    \E i \in DOMAIN expense.approvals :
        /\ expense.approvals[i].level = level
        /\ expense.approvals[i].approverEmail = userEmail

\* C17: with the seeded rule table, Logistics / 6000 resolves to levels
\* 1, 2, 3; once level 1 is approved, a decline by the level-2 approver
\* makes the expense DECLINED, the level-3 row stays PENDING, and the
\* level-3 approver's approve or decline is refused and changes nothing.
C17_DeclineAtLevelTwo ==
    \A r \in Reqs :
        LET e == req[r].expense
            id == req[r].id
        IN  /\ ( /\ Answered(r, "submit", "OK")
                 /\ SeededCase(e, "Logistics", Amt(6000, 0)) ) =>
                   /\ LevelsOf(req[r].workflow) = <<1, 2, 3>>
                   /\ LevelsOf(Stored(id).approvals) = <<1, 2, 3>>
            /\ ( /\ req[r].op = "decline" /\ req[r].pc = "done"
                 /\ SeededCase(e, "Logistics", Amt(6000, 0))
                 /\ e.status = "PENDING" /\ e.currentApprovalLevel = 2
                 /\ HasRowAt(e, req[r].userEmail, 2) ) =>
                   /\ req[r].result = "OK"
                   /\ e.approvals[1].status = "APPROVED"
                   /\ Stored(id).status = "DECLINED"
                   /\ Stored(id).approvals[3].level = 3
                   /\ Stored(id).approvals[3].status = "PENDING"
            /\ ( /\ req[r].op \in {"approve", "decline"} /\ req[r].pc = "done"
                 /\ SeededCase(e, "Logistics", Amt(6000, 0))
                 /\ e.status = "DECLINED" /\ e.currentApprovalLevel = 2
                 /\ HasRowAt(e, req[r].userEmail, 3) ) =>
                   /\ req[r].result \notin {"OK", ""}
                   /\ Stored(id) = e
                   /\ e.approvals[3].status = "PENDING"

\* The level-3 approver's decision on the expense declined at level 2,
\* refused.
C17_Witness ==
    \E r \in Reqs :
        /\ req[r].op \in {"approve", "decline"} /\ req[r].pc = "done"
        /\ SeededCase(req[r].expense, "Logistics", Amt(6000, 0))
        /\ req[r].expense.status = "DECLINED"
        /\ req[r].expense.currentApprovalLevel = 2
        /\ req[r].userEmail = ceo
        /\ req[r].userRole = "APPROVER"
        /\ req[r].result = "ExpenseNotPending"
        /\ req[r].expense.approvals[3].status = "PENDING"

\* ---- C18 (SpecFail)
\* Every resolved step of the stored expense id has its approval row.
HasItsRecords(id) ==
    \A s \in WorkflowSteps(rules, expenses[id].department, expenses[id].amount,
                           expenses[id].currency) :
        \E i \in RowsOf(id) : /\ approvals[i].level = s.level
                              /\ approvals[i].approverEmail = s.recipient

\* C18: when a storage write fails during submit, approve or decline, the
\* request is answered with an error and the tables are as before the
\* request: no decided approval row without the expense update, no expense
\* row without its approval rows.
C18_NoPartialCommit ==
    /\ \A r \in Reqs :
          /\ (req[r].op \in {"approve", "decline"} /\ req[r].pc = "done"
              /\ req[r].result = "StorageError") =>
                 Stored(req[r].id) = req[r].expense
          /\ (req[r].op = "submit" /\ req[r].pc = "done"
              /\ req[r].result \in {"StorageError", "NoResponse"}) =>
                 /\ req[r].result = "StorageError"
                 /\ req[r].id \notin DOMAIN expenses
                 /\ RowsOf(req[r].id) = {}
    /\ Quiet => \A id \in DOMAIN expenses : HasItsRecords(id)

\* ---- C19 (SpecFail)
\* The handler of request r met a failing notification.
DispatchFailed(r) ==
    \E i \in DOMAIN req[r].mail : req[r].mail[i][2] = "dispatch failed"

\* C19: a request whose notification dispatch failed is still answered
\* with success and the updated expense, and its state change is kept.
C19_DispatchFailureContained ==
    \A r \in Reqs :
        (req[r].pc = "done" /\ DispatchFailed(r)) =>
            /\ req[r].result = "OK"
            /\ req[r].updatedExpense = Stored(req[r].id)

\* ---- C20 (SpecSeq)
\* The approvers of the stored rows of expense id at the given level.
RecipientsAt(id, level) ==
    { approvals[i].approverEmail :
        i \in { j \in RowsOf(id) : approvals[j].level = level } }

\* The handler of request r sent one mail with the subject to each of the
\* recipients and no other mail.
Notified(r, recipients, subject) ==
    /\ Len(req[r].mail) = Cardinality(recipients)
    /\ \A to \in recipients :
          Cardinality({ i \in DOMAIN req[r].mail :
                          req[r].mail[i] = <<to, subject>> }) = 1

\* C20: in sequential execution a submission mails exactly the level-1
\* approvers, an advance to level k+1 exactly the approvers of level k+1,
\* a final approval and a decline the submitter, each once; a request that
\* fails and an approve that does not complete its level mail nobody.
C20_NotificationsMatchTransitions ==
    \A r \in Reqs :
        LET id == req[r].id
            before == req[r].expense
        IN  /\ (req[r].pc = "done" /\ req[r].result # "OK") =>
                  req[r].mail = << >>
            /\ Answered(r, "submit", "OK") =>
                  Notified(r, RecipientsAt(id, 1),
                           "New Expense Submitted for Your Approval")
            /\ Answered(r, "decline", "OK") =>
                  Notified(r, {before.submitterEmail},
                           "Your Expense Has Been Declined")
            /\ Answered(r, "approve", "OK") =>
                  IF expenses[id].status = "APPROVED"
                  THEN Notified(r, {before.submitterEmail},
                                "Your Expense Has Been Approved")
                  ELSE IF expenses[id].currentApprovalLevel
                            = before.currentApprovalLevel + 1
                  THEN Notified(r, RecipientsAt(id, before.currentApprovalLevel + 1),
                                "Expense Approval Required")
                  ELSE /\ expenses[id].currentApprovalLevel
                            = before.currentApprovalLevel
                       /\ req[r].mail = << >>

\* An approve that advanced the expense from level 1 to level 2 and mailed
\* the level-2 approver.
C20_Witness ==
    \E r \in Reqs :
        /\ Answered(r, "approve", "OK")
        /\ req[r].expense.currentApprovalLevel = 1
        /\ expenses[req[r].id].currentApprovalLevel = 2
        /\ RecipientsAt(req[r].id, 2) # {}
        /\ \E to \in RecipientsAt(req[r].id, 2) :
              req[r].mail = << <<to, "Expense Approval Required">> >>

\* ---- C21 (SpecBoot)
\* The rows of a users table with the e-mail.
UsersOf(table, email) == { n \in DOMAIN table : table[n].email = email }

\* Every recipient of the configuration list has a row in the users table.
AllRecipientsIn(table) ==
    \A n \in DOMAIN uniqueRecipients : UsersOf(table, uniqueRecipients[n]) # {}

\* C21: when a run of the bootstrap ends, the rule table holds exactly the
\* rows of the configuration list, each once, and the users table exactly
\* one user per distinct recipient; a run that starts from the users a
\* previous run left changes no user.
C21_BootstrapIdempotent ==
    boot.pc = "done" =>
        /\ rules = approvalRules
        /\ \A n \in DOMAIN uniqueRecipients :
              Cardinality(UsersOf(users, uniqueRecipients[n])) = 1
        /\ AllRecipientsIn(boot.usersBefore) => users = boot.usersBefore

\* The end of a run that started with every recipient and one more user in
\* the users table.
C21_Witness ==
    /\ boot.pc = "done"
    /\ AllRecipientsIn(boot.usersBefore)
    /\ Len(boot.usersBefore) > Len(uniqueRecipients)
    /\ rules = approvalRules

\* ---- C22 (SpecBoot)
\* C22: when a run of the bootstrap ends, every distinct recipient has a
\* user with role APPROVER, and every user that existed when the run began
\* is still there with the role it had.
C22_RecipientsAreApprovers ==
    boot.pc = "done" =>
        /\ \A n \in DOMAIN uniqueRecipients :
              \E u \in UsersOf(users, uniqueRecipients[n]) :
                 users[u].role = "APPROVER"
        /\ \A n \in DOMAIN boot.usersBefore :
              /\ n \in DOMAIN users
              /\ users[n] = boot.usersBefore[n]

\* ---- C23 (SpecRestart)
\* The (level, approver) of the rows of expense id in an approvals table,
\* as getApprovalRecords orders them.
KeysOf(table, id) ==
    LET recs == getApprovalRecords(table, id)
    IN  [ i \in DOMAIN recs |-> <<recs[i].level, recs[i].approverEmail>> ]

\* The submission that stores expense id has ended.
Submitted(id) ==
    /\ id \in DOMAIN expenses
    /\ \A q \in Reqs : ~(req[q].op = "submit" /\ InFlight(q) /\ req[q].id = id)

\* An approve or decline of a PENDING expense succeeds exactly when the
\* object read has a PENDING row of the actor at the current level.
DecidedByRecords ==
    \A r \in Reqs :
        ( /\ req[r].op \in {"approve", "decline"} /\ req[r].pc = "done"
          /\ req[r].expense.id # 0
          /\ req[r].expense.status = "PENDING" ) =>
            (req[r].result = "OK"
               <=> ActorRowAtCurrent(req[r].expense, req[r].userEmail, "PENDING"))

\* C23: once an expense is submitted, no step (of an approve, a decline or
\* a bootstrap run that rewrites the rule table) adds, removes or
\* re-targets a row of it or changes its maxApprovalLevel, and decisions
\* depend on its rows only, not on the rule table.
C23_WorkflowFrozen ==
    [][ /\ \A id \in DOMAIN expenses :
              Submitted(id) =>
                 /\ id \in DOMAIN expenses'
                 /\ expenses'[id].maxApprovalLevel = expenses[id].maxApprovalLevel
                 /\ KeysOf(approvals', id) = KeysOf(approvals, id)
        /\ DecidedByRecords'
      ]_vars

\* An approve that succeeded for an actor whom the rule table, rewritten
\* since the submission, no longer names at that level.
C23_Witness ==
    \E r \in Reqs :
        /\ Answered(r, "approve", "OK")
        /\ rules = approvalRules
        /\ LET e == req[r].expense
           IN  /\ WorkflowSteps(rules, e.department, e.amount, e.currency) # {}
               /\ [level |-> e.currentApprovalLevel, recipient |-> req[r].userEmail]
                     \notin WorkflowSteps(rules, e.department, e.amount, e.currency)

\* ---- C24 (SpecSeq)
\* The rows of the expense object at its current level.
AtCurrent(expense) ==
    { i \in DOMAIN expense.approvals :
        expense.approvals[i].level = expense.currentApprovalLevel }

\* Request r is an answered, successful approve of an expense whose current
\* level has two or more rows, one of them PENDING and not the actor's.
ApprovedBesidePending(r) ==
    /\ Answered(r, "approve", "OK")
    /\ Cardinality(AtCurrent(req[r].expense)) >= 2
    /\ \E i \in AtCurrent(req[r].expense) :
          /\ req[r].expense.approvals[i].approverEmail # req[r].userEmail
          /\ req[r].expense.approvals[i].status = "PENDING"

\* The stored expense has left the level the handler read it at.
LeftLevel(r) ==
    \/ expenses[req[r].id].status = "APPROVED"
    \/ expenses[req[r].id].currentApprovalLevel
          > req[r].expense.currentApprovalLevel

\* C24: a single approve by one recipient of a level with two or more rows,
\* while another row of that level is still PENDING, completes the level:
\* currentApprovalLevel advances or the expense becomes APPROVED.
C24_OneApprovalCompletes ==
    \A r \in Reqs : ApprovedBesidePending(r) => LeftLevel(r)

\* C24, as the handler behaves: such an approve never completes the level;
\* the expense stays PENDING at the same level.
C24_OneApprovalDoesNotComplete ==
    \A r \in Reqs :
        ApprovedBesidePending(r) =>
            /\ ~LeftLevel(r)
            /\ expenses[req[r].id].status = "PENDING"
            /\ expenses[req[r].id].currentApprovalLevel
                  = req[r].expense.currentApprovalLevel

\* An approve by one of two recipients of level 1 while the other's row is
\* PENDING.
C24_Witness ==
    \E r \in Reqs :
        /\ ApprovedBesidePending(r)
        /\ Cardinality(AtCurrent(req[r].expense)) = 2
        /\ \E i \in RowsOf(req[r].id) :
              /\ approvals[i].approverEmail = req[r].userEmail
              /\ approvals[i].status = "APPROVED"

\* ---- C25 (SpecSeq)
\* count(rows at the level whose approver is the actor or whose status is
\* APPROVED) = count(rows at the level), on the object read.
CountsEqual(expense, userEmail) ==
    Cardinality({ i \in AtCurrent(expense) :
                    \/ expense.approvals[i].approverEmail = userEmail
                    \/ expense.approvals[i].status = "APPROVED" })
      = Cardinality(AtCurrent(expense))

\* C25: a successful approve completes the current level exactly when the
\* counts are equal on the object read before the update; when they are
\* not, only the actor's row changes (to APPROVED) and the expense keeps
\* its status, currentApprovalLevel and approvedOrDeclinedAt.
C25_CompletionTest ==
    \A r \in Reqs :
        Answered(r, "approve", "OK") =>
            LET before == req[r].expense
                after == Stored(req[r].id)
            IN  /\ CountsEqual(before, req[r].userEmail) <=> LeftLevel(r)
                /\ ~CountsEqual(before, req[r].userEmail) =>
                      /\ after.status = before.status
                      /\ after.currentApprovalLevel = before.currentApprovalLevel
                      /\ after.approvedOrDeclinedAt = before.approvedOrDeclinedAt
                      /\ after.maxApprovalLevel = before.maxApprovalLevel
                      /\ Len(after.approvals) = Len(before.approvals)
                      /\ \A i \in DOMAIN before.approvals :
                            IF i \in AtCurrent(before)
                               /\ before.approvals[i].approverEmail = req[r].userEmail
                            THEN /\ after.approvals[i].status = "APPROVED"
                                 /\ after.approvals[i].level = before.approvals[i].level
                                 /\ after.approvals[i].approverEmail = req[r].userEmail
                            ELSE after.approvals[i] = before.approvals[i]

\* The second of two recipients approves: the counts are equal through the
\* other's APPROVED row, and the expense leaves the level.
C25_Witness ==
    \E r \in Reqs :
        /\ Answered(r, "approve", "OK")
        /\ CountsEqual(req[r].expense, req[r].userEmail)
        /\ \E i \in AtCurrent(req[r].expense) :
              /\ req[r].expense.approvals[i].approverEmail # req[r].userEmail
              /\ req[r].expense.approvals[i].status = "APPROVED"
        /\ LeftLevel(r)

\* ---- C26 (Spec)
\* C26: whenever no handler is running, an expense whose rows at the
\* current level are all APPROVED has left that level: no such expense is
\* still PENDING at that level, whatever the interleaving of the approve
\* requests of the level's recipients was.
C26_NoLostApproval ==
    (\A r \in Reqs : ~InFlight(r)) =>
        \A id \in DOMAIN expenses :
            LET level == expenses[id].currentApprovalLevel
            IN  ( /\ expenses[id].status = "PENDING"
                  /\ \E i \in RowsOf(id) : approvals[i].level = level )
                => ~LevelAllApproved(id, level)

\* ---- C27 (SpecSeq)
\* The rows of the stored expense id cover the levels 1..maxApprovalLevel.
ContiguousLevels(id) ==
    { approvals[i].level : i \in RowsOf(id) } = 1..expenses[id].maxApprovalLevel

\* C27: in sequential execution, for every stored expense whose rows cover
\* the levels 1..maxApprovalLevel, each row below currentApprovalLevel is
\* APPROVED, each row above it is PENDING, and an APPROVED expense has all
\* its rows APPROVED.
C27_LevelsClearedInOrder ==
    \A id \in DOMAIN expenses :
        (RowsOf(id) # {} /\ ContiguousLevels(id)) =>
            /\ \A i \in RowsOf(id) :
                  /\ approvals[i].level < expenses[id].currentApprovalLevel
                        => approvals[i].status = "APPROVED"
                  /\ approvals[i].level > expenses[id].currentApprovalLevel
                        => approvals[i].status = "PENDING"
            /\ expenses[id].status = "APPROVED" =>
                  \A i \in RowsOf(id) : approvals[i].status = "APPROVED"

\* An expense APPROVED through three levels.
C27_Witness ==
    \E id \in DOMAIN expenses :
        /\ ContiguousLevels(id)
        /\ expenses[id].maxApprovalLevel = 3
        /\ expenses[id].currentApprovalLevel = 3
        /\ expenses[id].status = "APPROVED"
        /\ \A r \in Reqs : req[r].pc = "idle"

\* ---- C28 (SpecLive)
\* The stored expense id has a non-empty workflow of contiguous levels.
Progressing(id) ==
    /\ Submitted(id)
    /\ RowsOf(id) # {}
    /\ ContiguousLevels(id)

\* With no handler running, a PENDING expense of that kind has a PENDING
\* row at its current level: its approver can approve or decline.
SomeoneCanDecide ==
    Quiet =>
        \A id \in DOMAIN expenses :
            (Progressing(id) /\ expenses[id].status = "PENDING") =>
                \E i \in RowsOf(id) :
                    /\ approvals[i].level = expenses[id].currentApprovalLevel
                    /\ approvals[i].status = "PENDING"

\* C28: in sequential execution without declines, where every approver
\* holding a PENDING row at the current level eventually approves, an
\* expense with a non-empty workflow of contiguous levels eventually is
\* APPROVED, and in every PENDING state some assigned approver can act.
C28_Progress ==
    /\ []SomeoneCanDecide
    /\ \A id \in ExpenseIds :
          Progressing(id)
             ~> (id \in DOMAIN expenses /\ expenses[id].status = "APPROVED")

\* An expense APPROVED after two recipients at level 1 and one at level 2.
C28_Witness ==
    \E id \in DOMAIN expenses :
        /\ Progressing(id)
        /\ expenses[id].status = "APPROVED"
        /\ expenses[id].maxApprovalLevel = 2
        /\ Cardinality(RowsOf(id)) = 3

\* ---- C29 (SpecSeq)
\* C29: in sequential execution the approvedOrDeclinedAt of a stored
\* expense is non-null exactly when its status is APPROVED or DECLINED: null
\* after the submission and after each level advance, stamped by the final
\* approval and by a decline.
C29_DecidedAtIffDecided ==
    /\ \A id \in DOMAIN expenses :
          (expenses[id].approvedOrDeclinedAt # "null")
             <=> (expenses[id].status \in {"APPROVED", "DECLINED"})
    /\ \A r \in Reqs :
          (Answered(r, "approve", "OK") /\ LeftLevel(r)
             /\ expenses[req[r].id].status = "PENDING") =>
                expenses[req[r].id].approvedOrDeclinedAt = "null"

\* A decline answered after an advance: the expense, at level 2, carries
\* the stamp.
C29_Witness ==
    \E r \in Reqs :
        /\ Answered(r, "decline", "OK")
        /\ req[r].expense.currentApprovalLevel = 2
        /\ req[r].expense.approvedOrDeclinedAt = "null"
        /\ expenses[req[r].id].status = "DECLINED"
        /\ expenses[req[r].id].approvedOrDeclinedAt # "null"

\* ---- C30 (SpecGate)
\* A decision request with role ADMIN is treated as an approver's: on a
\* PENDING expense it succeeds exactly when the ADMIN's e-mail has a PENDING
\* row at the current level.
AdminLikeApprover ==
    \A r \in Reqs :
        ( /\ req[r].op \in {"approve", "decline"} /\ req[r].pc = "done"
          /\ req[r].userRole = "ADMIN" ) =>
            /\ req[r].result = "OK" =>
                  /\ req[r].expense.status = "PENDING"
                  /\ ActorRowAtCurrent(req[r].expense, req[r].userEmail, "PENDING")
            /\ ( /\ req[r].expense.id # 0
                 /\ req[r].expense.status = "PENDING"
                 /\ ~ActorRowAtCurrent(req[r].expense, req[r].userEmail, "PENDING") )
               => /\ req[r].result = "NotAuthorized"
                  /\ Stored(req[r].id) = req[r].expense

\* C30: an approve or decline whose role is neither APPROVER nor ADMIN is
\* answered with a refusal in its first step, before the expense is read
\* and with every table unchanged; a request with role ADMIN gets no
\* bypass.
C30_RoleGate ==
    [][ /\ \A r \in Reqs :
              ( /\ req'[r].op \in {"approve", "decline"}
                /\ req'[r].userRole \notin {"APPROVER", "ADMIN"}
                /\ req'[r] # req[r] ) =>
                  /\ req[r].pc = "idle"
                  /\ req'[r].pc = "done"
                  /\ req'[r].result \in {"Forbidden", "ValidationError"}
                  /\ req'[r].expense = NoExpense
                  /\ expenses' = expenses
                  /\ approvals' = approvals
                  /\ rules' = rules
        /\ AdminLikeApprover'
      ]_vars

\* An ADMIN without a row at the current level of a PENDING expense,
\* refused.
C30_Witness ==
    \E r \in Reqs :
        /\ Answered(r, "approve", "NotAuthorized")
        /\ req[r].userRole = "ADMIN"
        /\ req[r].expense.status = "PENDING"
        /\ req[r].userEmail = employee
        /\ RowsOf(req[r].id) # {}

====
